---------------------------- MODULE Spec2Model ----------------------------
(***************************************************************************)
(* A model of hostinfo.py: the collectors that query the host and the      *)
(* module-level script that aggregates their results into `master` and     *)
(* writes it out.                                                          *)
(*                                                                         *)
(* Text is a sequence of one-character strings.  What the host, psutil and *)
(* the external tools answer is the environment: host files and binaries   *)
(* are fixed for a run (host), everything else is chosen at the call.      *)
(***************************************************************************)
EXTENDS Naturals, Sequences, FiniteSets

VARIABLES
    host,        \* binaries present, /etc/os-release, /etc/sysctl.conf
    pc,          \* the statement of the module-level script to run next
    master,      \* the aggregation dict of line 318
    detected1,   \* what check_linux_pkg_type() returned at line 320
    detected2,   \* what check_linux_pkg_type() returned at line 322
    listing,     \* which listing function filled master['system_packages']
    sysctl_run,  \* what subprocess.run(['sysctl', '-a']) did at line 258
    raised,      \* the exception that left the script, if one did
    written,     \* what json.dumps(master) was handed at line 337
    call,        \* a single call of one collector: the function and its inputs
    ret          \* what that call did

vars == <<host, pc, master, detected1, detected2, listing, sysctl_run,
          raised, written, call, ret>>

-----------------------------------------------------------------------------
(* Bounds of the model *)

MaxText == 6      \* characters of /etc/sysctl.conf
MaxStdout == 6    \* characters a package query tool prints
MaxProcs == 3     \* processes psutil.process_iter yields
MaxMounts == 3    \* partitions psutil.disk_partitions returns

-----------------------------------------------------------------------------
(* Python values *)

NL == "\n"
SP == " "
Whitespace == {SP, NL}

Return(v) == [kind |-> "return", value |-> v, printed |-> <<>>]
ReturnPrinting(v, msg) == [kind |-> "return", value |-> v, printed |-> <<msg>>]
Raise(e) == [kind |-> "raise", exc |-> e]
Hang == [kind |-> "hang"]

EmptyDict == [k \in {} |-> <<>>]
SetItem(d, k, v) == [x \in DOMAIN d \cup {k} |-> IF x = k THEN v ELSE d[x]]

TextsUpTo(chars, n) == UNION {[1..m -> chars] : m \in 0..n}

(* str methods *)

Find(s, c) ==
    IF \E i \in 1..Len(s) : s[i] = c
    THEN CHOOSE i \in 1..Len(s) : s[i] = c /\ \A j \in 1..(i - 1) : s[j] # c
    ELSE 0

Contains(s, c) == Find(s, c) # 0

StartsWith(s, c) == Len(s) > 0 /\ s[1] = c

RECURSIVE LStrip(_)
LStrip(s) ==
    IF s # <<>> /\ Head(s) \in Whitespace THEN LStrip(Tail(s)) ELSE s

RECURSIVE RStrip(_)
RStrip(s) ==
    IF s # <<>> /\ s[Len(s)] \in Whitespace
    THEN RStrip(SubSeq(s, 1, Len(s) - 1))
    ELSE s

\* s.strip()
Strip(s) == RStrip(LStrip(s))

\* s.split(sep): every piece between separators, the empty ones too
RECURSIVE Split(_, _)
Split(s, sep) ==
    LET i == Find(s, sep)
    IN  IF i = 0 THEN <<s>>
        ELSE <<SubSeq(s, 1, i - 1)>> \o Split(SubSeq(s, i + 1, Len(s)), sep)

\* s.split(sep, 1)
SplitOnce(s, sep) ==
    LET i == Find(s, sep)
    IN  IF i = 0 THEN <<s>>
        ELSE <<SubSeq(s, 1, i - 1), SubSeq(s, i + 1, Len(s))>>

\* s.split(): the runs of non-whitespace
RECURSIVE SplitFields(_)
SplitFields(s) ==
    LET t == LStrip(s)
        ws == {i \in 1..Len(t) : t[i] \in Whitespace}
        j == IF ws = {} THEN Len(t) + 1
             ELSE CHOOSE i \in ws : \A k \in ws : i <= k
    IN  IF t = <<>> THEN <<>>
        ELSE <<SubSeq(t, 1, j - 1)>> \o SplitFields(SubSeq(t, j, Len(t)))

\* for line in f: each line keeps its newline; the last may have none
RECURSIVE FileLines(_)
FileLines(text) ==
    LET i == Find(text, NL)
    IN  IF text = <<>> THEN <<>>
        ELSE IF i = 0 THEN <<text>>
        ELSE <<SubSeq(text, 1, i)>> \o FileLines(SubSeq(text, i + 1, Len(text)))

-----------------------------------------------------------------------------
(* read_sysctl_conf and get_current_sysctl_values *)

NoFile == [exists |-> FALSE, text |-> <<>>]
File(text) == [exists |-> TRUE, text |-> text]

\* lines 251-252
SysctlAssignFirstWins(d, line) ==
    LET kv == SplitOnce(line, "=")
    IN  IF Strip(kv[1]) \in DOMAIN d THEN d
        ELSE SetItem(d, Strip(kv[1]), Strip(kv[2]))

SysctlAssign(d, line) ==
    LET kv == SplitOnce(line, "=")
    IN  SetItem(d, Strip(kv[1]), Strip(kv[2]))

\* lines 248-252, one pass of the loop body
SysctlConfLine(d, raw) ==
    LET line == Strip(raw)
    IN  IF line # <<>> /\ ~StartsWith(line, "#")
        THEN IF Contains(line, "=") THEN SysctlAssign(d, line) ELSE d
        ELSE d

RECURSIVE SysctlConfLoop(_, _)
SysctlConfLoop(d, lines) ==
    IF lines = <<>> THEN d
    ELSE SysctlConfLoop(SysctlConfLine(d, Head(lines)), Tail(lines))

read_sysctl_conf(file) ==
    IF file.exists THEN SysctlConfLoop(EmptyDict, FileLines(file.text))
    ELSE EmptyDict

\* lines 262-266, one pass of the loop body
CurrentSysctlLine(d, raw) ==
    LET line == Strip(raw)
    IN  IF line # <<>>
        THEN IF Contains(line, "=") THEN SysctlAssign(d, line) ELSE d
        ELSE d

RECURSIVE CurrentSysctlLoop(_, _)
CurrentSysctlLoop(d, lines) ==
    IF lines = <<>> THEN d
    ELSE CurrentSysctlLoop(CurrentSysctlLine(d, Head(lines)), Tail(lines))

\* run: what subprocess.run did.  No timeout is passed and check is not set.
get_current_sysctl_values(run) ==
    CASE run.kind = "FileNotFoundError" -> Raise("FileNotFoundError")
      [] run.kind = "hang" -> Hang
      [] run.kind = "completed" ->
            IF run.returncode = 0
            THEN Return(CurrentSysctlLoop(EmptyDict, Split(run.stdout, NL)))
            ELSE Return(EmptyDict)

-----------------------------------------------------------------------------
(* subprocess.run(..., capture_output=True, text=True) as the collectors use *)
(* it: the tool is missing, never finishes, or exits with a code and text.   *)

Completed(rc, out) == [kind |-> "completed", returncode |-> rc, stdout |-> out]
ToolMissing == [kind |-> "FileNotFoundError"]
ToolHangs == [kind |-> "hang"]

-----------------------------------------------------------------------------
(* gather_rpm_packages *)

\* lines 185-187: rpm_packages is the list of line 181, indexed by a str
RpmLine(line) ==
    IF Len(SplitOnce(line, SP)) < 2 THEN Raise("ValueError")
    ELSE Raise("TypeError")

RECURSIVE RpmLoop(_, _)
RpmLoop(rpm_packages, lines) ==
    IF lines = <<>> THEN Return(rpm_packages)
    ELSE IF Head(lines) = <<>> THEN RpmLoop(rpm_packages, Tail(lines))
    ELSE RpmLine(Head(lines))

\* check=True: a non-zero exit raises CalledProcessError, caught at line 188
gather_rpm_packages(run) ==
    CASE run.kind = "FileNotFoundError" -> Raise("FileNotFoundError")
      [] run.kind = "hang" -> Hang
      [] run.kind = "completed" ->
            IF run.returncode # 0
            THEN ReturnPrinting(<<>>, "Error gathering RPM packages")
            ELSE RpmLoop(<<>>, Split(run.stdout, NL))

-----------------------------------------------------------------------------
(* gather_dpkg_packages *)

Unbound == [bound |-> FALSE, v |-> <<>>]
Bound(v) == [bound |-> TRUE, v |-> v]

\* lines 199-200: fields is assigned only for a non-empty line
DpkgFields(fields, line) ==
    IF line # <<>> THEN Bound(SplitFields(Strip(line))) ELSE fields

\* lines 201-206 run for every line, with whatever fields holds
RECURSIVE DpkgLoop(_, _, _)
DpkgLoop(dpkg_packages, fields, lines) ==
    IF lines = <<>> THEN Return(dpkg_packages)
    ELSE LET f == DpkgFields(fields, Head(lines))
         IN  IF ~f.bound THEN Raise("UnboundLocalError")
             ELSE IF Len(f.v) < 3 THEN Raise("IndexError")
             ELSE DpkgLoop(Append(dpkg_packages,
                                  [Package |-> f.v[1],
                                   Version |-> f.v[2],
                                   Architecture |-> f.v[3]]),
                           f, Tail(lines))

gather_dpkg_packages(run) ==
    CASE run.kind = "FileNotFoundError" -> Raise("FileNotFoundError")
      [] run.kind = "hang" -> Hang
      [] run.kind = "completed" ->
            IF run.returncode # 0
            THEN ReturnPrinting(<<>>, "Error gathering Debian packages")
            ELSE DpkgLoop(<<>>, Unbound, Split(run.stdout, NL))

-----------------------------------------------------------------------------
(* check_linux_pkg_type *)

Binaries == {"/usr/bin/rpm", "/bin/rpm", "/usr/bin/dpkg", "/bin/dpkg"}

\* The names /etc/os-release may hold, as written there
DistroWords == {"Debian", "Ubuntu", "CentOS", "fedora", "rhel", "arch"}

\* str.lower() of each name
Lower(w) ==
    CASE w = "Debian" -> "debian"
      [] w = "Ubuntu" -> "ubuntu"
      [] w = "CentOS" -> "centos"
      [] OTHER -> w

\* 'name' in os_release_info, with os_release_info = f.read().lower()
InOsRelease(name, words) == \E w \in words : Lower(w) = name

check_linux_pkg_type_dpkg_first(h) ==
    IF "/usr/bin/dpkg" \in h.paths \/ "/bin/dpkg" \in h.paths THEN "debian"
    ELSE IF "/usr/bin/rpm" \in h.paths \/ "/bin/rpm" \in h.paths THEN "rpm"
    ELSE IF h.os_release.exists
    THEN IF InOsRelease("debian", h.os_release.words)
            \/ InOsRelease("ubuntu", h.os_release.words) THEN "debian"
         ELSE IF InOsRelease("centos", h.os_release.words)
                 \/ InOsRelease("fedora", h.os_release.words)
                 \/ InOsRelease("rhel", h.os_release.words) THEN "rpm"
         ELSE "Unknown"
    ELSE "Unknown"

check_linux_pkg_type(h) ==
    IF "/usr/bin/rpm" \in h.paths \/ "/bin/rpm" \in h.paths THEN "rpm"
    ELSE IF "/usr/bin/dpkg" \in h.paths \/ "/bin/dpkg" \in h.paths THEN "debian"
    ELSE IF h.os_release.exists
    THEN IF InOsRelease("debian", h.os_release.words)
            \/ InOsRelease("ubuntu", h.os_release.words) THEN "debian"
         ELSE IF InOsRelease("centos", h.os_release.words)
                 \/ InOsRelease("fedora", h.os_release.words)
                 \/ InOsRelease("rhel", h.os_release.words) THEN "rpm"
         ELSE "Unknown"
    ELSE "Unknown"

-----------------------------------------------------------------------------
(* gather_disk_usage_info *)

\* What psutil.disk_usage(partition.mountpoint) does for one partition
UsageOf(part) == part.usage

\* lines 18-23: one partition
DiskUsageStep(disk_usage, part) ==
    LET usage == UsageOf(part)
    IN  IF usage.kind = "return"
        THEN Append(disk_usage, [percent |-> usage.value.percent,
                                 mountpoint |-> part.mountpoint])
        ELSE disk_usage

RECURSIVE DiskUsageLoop(_, _)
DiskUsageLoop(disk_usage, parts) ==
    IF parts = <<>> THEN disk_usage
    ELSE DiskUsageLoop(DiskUsageStep(disk_usage, Head(parts)), Tail(parts))

\* partitions: what psutil.disk_partitions(all=True) does at line 17
gather_disk_usage_info(partitions) ==
    IF partitions.kind = "raise" THEN <<>>
    ELSE DiskUsageLoop(<<>>, partitions.value)

-----------------------------------------------------------------------------
(* gather_system_info *)

CaughtProcessErrors == {"NoSuchProcess", "AccessDenied", "ZombieProcess"}

\* x._asdict() where x is not None (lines 147-152)
AsDict(x) == IF x = "None" THEN "None" ELSE "dict"

\* lines 146-153: the try body for one process
ProcessInfo(proc) ==
    IF proc.raises # "no" THEN Raise(proc.raises)
    ELSE Return([pid |-> proc.pid,
                 cpu_times |-> AsDict(proc.cpu_times),
                 memory_info |-> AsDict(proc.memory_info),
                 io_counters |-> AsDict(proc.io_counters)])

\* lines 145-155 with AccessDenied missing from the except clause
ProcessStepDenied(acc, proc) ==
    LET info == ProcessInfo(proc)
    IN  IF acc.kind = "raise" THEN acc
        ELSE IF info.kind = "return" THEN Return(Append(acc.value, info.value))
        ELSE IF info.exc \in CaughtProcessErrors \ {"AccessDenied"} THEN acc
        ELSE info

\* lines 145-155: one process
ProcessStep(acc, proc) ==
    LET info == ProcessInfo(proc)
    IN  IF acc.kind = "raise" THEN acc
        ELSE IF info.kind = "return" THEN Return(Append(acc.value, info.value))
        ELSE IF info.exc \in CaughtProcessErrors THEN acc
        ELSE info

RECURSIVE ProcessLoop(_, _)
ProcessLoop(acc, procs) ==
    IF procs = <<>> THEN acc
    ELSE ProcessLoop(ProcessStep(acc, Head(procs)), Tail(procs))

\* env.queries: whether the psutil, cpuinfo and GPUtil queries of lines
\* 120-139 answer; env.partitions: psutil.disk_partitions, asked at line 127
\* and again at line 17; env.procs: what process_iter yields
gather_system_info(env) ==
    IF env.queries # "ok" THEN Raise(env.queries)
    ELSE IF env.partitions.kind = "raise" THEN env.partitions
    ELSE LET processes == ProcessLoop(Return(<<>>), env.procs)
         IN  IF processes.kind = "raise" THEN processes
             ELSE Return([disk_partitions |-> env.partitions.value,
                          disk_usage |-> gather_disk_usage_info(env.partitions),
                          processes |-> processes.value])

-----------------------------------------------------------------------------
(* The module-level script, lines 318-337 *)

NoOsRelease == [exists |-> FALSE, words |-> {}]
OsRelease(words) == [exists |-> TRUE, words |-> words]

SysctlConfSamples ==
    {NoFile, File(<<"a", "=", "a", NL, "#", "a", "=", NL>>)}

Hosts ==
    [paths : SUBSET Binaries,
     os_release : {NoOsRelease} \cup {OsRelease(w) : w \in SUBSET DistroWords},
     sysctl_conf : SysctlConfSamples]

\* What the package query tools answer during a run
PackageRunSamples ==
    {ToolMissing, ToolHangs, Completed(1, <<>>), Completed(0, <<>>),
     Completed(0, <<"c", SP, "7", SP, "a", NL>>),
     Completed(0, <<"c", NL>>)}

\* What sysctl -a answers during a run
SysctlRunSamples ==
    {ToolMissing, ToolHangs, Completed(255, <<>>),
     Completed(0, <<"a", SP, "=", SP, "7", NL>>)}

\* What pkg_resources, platform, pwd and grp answer: the collector's value
\* or an exception, which none of these collectors catches
LibraryAnswers == {Return(<<>>), Raise("Exception")}

Usage(pct) == Return([percent |-> pct])
Partition(m, usage) == [mountpoint |-> m, usage |-> usage]
Process(pid, raises, io) ==
    [pid |-> pid, raises |-> raises, cpu_times |-> "pcputimes",
     memory_info |-> "pmem", io_counters |-> io]

\* What psutil answers to gather_system_info during a run
SystemInfoSamples ==
    {[queries |-> "ok", partitions |-> Return(<<>>), procs |-> <<>>],
     [queries |-> "ok",
      partitions |-> Return(<<Partition("/", Usage(50)),
                              Partition("/proc", Raise("PermissionError"))>>),
      procs |-> <<Process(1, "no", "pio"), Process(2, "AccessDenied", "None")>>],
     [queries |-> "Exception", partitions |-> Return(<<>>), procs |-> <<>>],
     [queries |-> "ok", partitions |-> Raise("Exception"), procs |-> <<>>]}

DeclaredFields ==
    {"system_packages", "python_packages", "platform_info", "system_info",
     "sysctl_conf", "current_sysctl", "users", "groups"}

NotCalled == "not called"
NotRun == [kind |-> "not run"]
NoException == [by |-> "nobody", exc |-> "none"]
NothingWritten == [done |-> FALSE, doc |-> <<>>]
NoCall == [fn |-> "none", arg |-> <<>>]
Pending == [kind |-> "pending"]

\* master[key] = <collector>(): the value is stored, or the exception leaves
\* the script (nothing at module level catches it), or the call never returns
Assign(key, r, next) ==
    CASE r.kind = "return" ->
            /\ master' = SetItem(master, key, r.value)
            /\ pc' = next
            /\ raised' = raised
      [] r.kind = "raise" ->
            /\ master' = master
            /\ pc' = "aborted"
            /\ raised' = [by |-> key, exc |-> r.exc]
      [] r.kind = "hang" ->
            /\ master' = master
            /\ pc' = "hung"
            /\ raised' = raised

Init ==
    /\ host \in Hosts
    /\ pc = "line320"
    /\ master = EmptyDict
    /\ detected1 = NotCalled
    /\ detected2 = NotCalled
    /\ listing = "none"
    /\ sysctl_run = NotRun
    /\ raised = NoException
    /\ written = NothingWritten
    /\ call = NoCall
    /\ ret = Pending

\* line 320: if check_linux_pkg_type() == 'debian'
Line320 ==
    /\ pc = "line320"
    /\ detected1' = check_linux_pkg_type(host)
    /\ pc' = IF detected1' = "debian" THEN "line321" ELSE "line322"
    /\ UNCHANGED <<host, master, detected2, listing, sysctl_run, raised,
                   written, call, ret>>

\* line 321: master['system_packages'] = gather_dpkg_packages()
Line321 ==
    /\ pc = "line321"
    /\ \E run \in PackageRunSamples :
          Assign("system_packages", gather_dpkg_packages(run), "line325")
    /\ listing' = "gather_dpkg_packages"
    /\ UNCHANGED <<host, detected1, detected2, sysctl_run, written, call, ret>>

\* line 322: elif check_linux_pkg_type() == 'rpm'
Line322 ==
    /\ pc = "line322"
    /\ detected2' = check_linux_pkg_type(host)
    /\ pc' = IF detected2' = "rpm" THEN "line323" ELSE "line325"
    /\ UNCHANGED <<host, master, detected1, listing, sysctl_run, raised,
                   written, call, ret>>

\* line 323: master['system_packages'] = gather_rpm_packages()
Line323 ==
    /\ pc = "line323"
    /\ \E run \in PackageRunSamples :
          Assign("system_packages", gather_rpm_packages(run), "line325")
    /\ listing' = "gather_rpm_packages"
    /\ UNCHANGED <<host, detected1, detected2, sysctl_run, written, call, ret>>

\* line 325: master['python_packages'] = gather_installed_python_packages()
Line325 ==
    /\ pc = "line325"
    /\ \E r \in LibraryAnswers : Assign("python_packages", r, "line326")
    /\ UNCHANGED <<host, detected1, detected2, listing, sysctl_run, written,
                   call, ret>>

\* line 326: master['platform_info'] = gather_platform_info()
Line326 ==
    /\ pc = "line326"
    /\ \E r \in LibraryAnswers : Assign("platform_info", r, "line327")
    /\ UNCHANGED <<host, detected1, detected2, listing, sysctl_run, written,
                   call, ret>>

\* line 327: master['system_info'] = gather_system_info()
Line327 ==
    /\ pc = "line327"
    /\ \E env \in SystemInfoSamples :
          Assign("system_info", gather_system_info(env), "line328")
    /\ UNCHANGED <<host, detected1, detected2, listing, sysctl_run, written,
                   call, ret>>

\* line 328: master['sysctl_conf'] = read_sysctl_conf()
Line328 ==
    /\ pc = "line328"
    /\ Assign("sysctl_conf", Return(read_sysctl_conf(host.sysctl_conf)),
              "line329")
    /\ UNCHANGED <<host, detected1, detected2, listing, sysctl_run, written,
                   call, ret>>

\* line 329: master['current_sysctl'] = get_current_sysctl_values()
Line329 ==
    /\ pc = "line329"
    /\ \E run \in SysctlRunSamples :
          /\ sysctl_run' = run
          /\ Assign("current_sysctl", get_current_sysctl_values(run), "line330")
    /\ UNCHANGED <<host, detected1, detected2, listing, written, call, ret>>

\* line 330: master['users'] = get_users_info()
Line330 ==
    /\ pc = "line330"
    /\ \E r \in LibraryAnswers : Assign("users", r, "line331")
    /\ UNCHANGED <<host, detected1, detected2, listing, sysctl_run, written,
                   call, ret>>

\* line 331: master['groups'] = get_groups_info()
Line331 ==
    /\ pc = "line331"
    /\ \E r \in LibraryAnswers : Assign("groups", r, "line333")
    /\ UNCHANGED <<host, detected1, detected2, listing, sysctl_run, written,
                   call, ret>>

\* lines 333-337: the snapshot is serialised and written
Line333 ==
    /\ pc = "line333"
    /\ written' = [done |-> TRUE, doc |-> master]
    /\ pc' = "done"
    /\ UNCHANGED <<host, master, detected1, detected2, listing, sysctl_run,
                   raised, call, ret>>

Next ==
    \/ Line320
    \/ Line321
    \/ Line322
    \/ Line323
    \/ Line325
    \/ Line326
    \/ Line327
    \/ Line328
    \/ Line329
    \/ Line330
    \/ Line331
    \/ Line333

Spec == Init /\ [][Next]_vars

-----------------------------------------------------------------------------
(* One call of one collector on every input within the bounds *)

IdleHost == [paths |-> {}, os_release |-> NoOsRelease, sysctl_conf |-> NoFile]

NoRun ==
    /\ host = IdleHost
    /\ pc = "idle"
    /\ master = EmptyDict
    /\ detected1 = NotCalled
    /\ detected2 = NotCalled
    /\ listing = "none"
    /\ sysctl_run = NotRun
    /\ raised = NoException
    /\ written = NothingWritten

Called(fn) == call.fn = fn /\ ret.kind = "pending"

runvars == <<host, pc, master, detected1, detected2, listing, sysctl_run,
             raised, written>>

(* read_sysctl_conf *)

SysctlChars == {"a", "=", "#", SP, NL}

\* "a=1\n# comment\nb = 2 \n\nbad_line\n" and "x=1\nx=2\n"
SysctlExample1 ==
    File(<<"a", "=", "1", NL,
           "#", SP, "c", "o", "m", "m", "e", "n", "t", NL,
           "b", SP, "=", SP, "2", SP, NL,
           NL,
           "b", "a", "d", "_", "l", "i", "n", "e", NL>>)
SysctlExample2 == File(<<"x", "=", "1", NL, "x", "=", "2", NL>>)

SysctlConfFiles ==
    {NoFile, SysctlExample1, SysctlExample2}
        \cup {File(t) : t \in TextsUpTo(SysctlChars, MaxText)}

InitSysctl ==
    /\ NoRun
    /\ call \in [fn : {"read_sysctl_conf"}, arg : SysctlConfFiles]
    /\ ret = Pending

Call_read_sysctl_conf ==
    /\ Called("read_sysctl_conf")
    /\ ret' = Return(read_sysctl_conf(call.arg))
    /\ UNCHANGED <<runvars, call>>

NextSysctl == Call_read_sysctl_conf

SpecSysctl == InitSysctl /\ [][NextSysctl]_vars

(* gather_rpm_packages, gather_dpkg_packages *)

PackageChars == {"c", "7", SP, NL}

PackageRuns ==
    {ToolMissing, ToolHangs, Completed(1, <<>>)}
        \cup {Completed(0, t) : t \in TextsUpTo(PackageChars, MaxStdout)}

InitPackages ==
    /\ NoRun
    /\ call \in [fn : {"gather_rpm_packages", "gather_dpkg_packages"},
                 arg : PackageRuns]
    /\ ret = Pending

Call_gather_rpm_packages ==
    /\ Called("gather_rpm_packages")
    /\ ret' = gather_rpm_packages(call.arg)
    /\ UNCHANGED <<runvars, call>>

Call_gather_dpkg_packages ==
    /\ Called("gather_dpkg_packages")
    /\ ret' = gather_dpkg_packages(call.arg)
    /\ UNCHANGED <<runvars, call>>

NextPackages ==
    \/ Call_gather_rpm_packages
    \/ Call_gather_dpkg_packages

SpecPackages == InitPackages /\ [][NextPackages]_vars

(* gather_disk_usage_info, gather_system_info *)

MountPoints == {"/", "/proc"}

PartitionAnswers ==
    {Raise("Exception")} \cup
    {Return(parts) : parts \in UNION {
        [1..m -> [mountpoint : MountPoints,
                  usage : {Usage(50), Raise("PermissionError")}]]
        : m \in 0..MaxMounts}}

\* What one process does while its fields are read
ProcessAnswers ==
    [raises : {"no"}, cpu_times : {"pcputimes"}, memory_info : {"pmem"},
     io_counters : {"pio", "None"}]
    \cup [raises : CaughtProcessErrors \cup {"Error"}, cpu_times : {"None"},
          memory_info : {"None"}, io_counters : {"None"}]

\* process_iter yields each process once: the pid is its place in the list
ProcessLists ==
    UNION {{[i \in 1..m |-> [pid |-> i,
                             raises |-> a[i].raises,
                             cpu_times |-> a[i].cpu_times,
                             memory_info |-> a[i].memory_info,
                             io_counters |-> a[i].io_counters]]
            : a \in [1..m -> ProcessAnswers]} : m \in 0..MaxProcs}

SystemInfoEnvs ==
    [queries : {"ok"},
     partitions : {Return(<<>>),
                   Return(<<Partition("/", Usage(50)),
                            Partition("/proc", Raise("PermissionError"))>>),
                   Raise("Exception")},
     procs : ProcessLists]
    \cup [queries : {"Exception"}, partitions : {Return(<<>>)}, procs : {<<>>}]

InitSystemInfo ==
    /\ NoRun
    /\ call \in [fn : {"gather_disk_usage_info"}, arg : PartitionAnswers]
                \cup [fn : {"gather_system_info"}, arg : SystemInfoEnvs]
    /\ ret = Pending

Call_gather_disk_usage_info ==
    /\ Called("gather_disk_usage_info")
    /\ ret' = Return(gather_disk_usage_info(call.arg))
    /\ UNCHANGED <<runvars, call>>

Call_gather_system_info ==
    /\ Called("gather_system_info")
    /\ ret' = gather_system_info(call.arg)
    /\ UNCHANGED <<runvars, call>>

NextSystemInfo ==
    \/ Call_gather_disk_usage_info
    \/ Call_gather_system_info

SpecSystemInfo == InitSystemInfo /\ [][NextSystemInfo]_vars

-----------------------------------------------------------------------------
(* The aggregation: C1, C2, C7, C8 *)

\* C1: whatever the host, the snapshot handed to the writer holds every
\* declared top-level field; none is omitted.
C1_EveryDeclaredFieldPresent ==
    written.done => DOMAIN written.doc = DeclaredFields

\* C2: a collector that raises degrades only its own field: the exception
\* never leaves the aggregation, and the run goes on to the writer.
C2_CollectorFailureIsolated ==
    raised.by = "nobody" /\ pc # "aborted"

HasRpmTool(h) == h.paths \cap {"/usr/bin/rpm", "/bin/rpm"} # {}
HasDpkgTool(h) == h.paths \cap {"/usr/bin/dpkg", "/bin/dpkg"} # {}
Names(h) == IF h.os_release.exists
            THEN {Lower(w) : w \in h.os_release.words} ELSE {}

\* The probes in the order the specification gives them
ProbedFamily(h) ==
    CASE HasRpmTool(h) -> "rpm"
      [] ~HasRpmTool(h) /\ HasDpkgTool(h) -> "debian"
      [] ~HasRpmTool(h) /\ ~HasDpkgTool(h)
            /\ Names(h) \cap {"debian", "ubuntu"} # {} -> "debian"
      [] ~HasRpmTool(h) /\ ~HasDpkgTool(h)
            /\ Names(h) \cap {"debian", "ubuntu"} = {}
            /\ Names(h) \cap {"centos", "fedora", "rhel"} # {} -> "rpm"
      [] OTHER -> "Unknown"

ListingDecided == pc \notin {"line320", "line321", "line322", "line323"}

\* C7: detection returns exactly one of rpm, debian, unknown, by the first
\* matching probe (RPM tool, Debian tool, distribution name in the
\* identification file, else unknown); a second call on the same host
\* returns the same; the listing function invoked is the detected family's.
C7_DetectionExclusiveIdempotent ==
    /\ detected1 # NotCalled =>
          /\ detected1 \in {"rpm", "debian", "Unknown"}
          /\ detected1 = ProbedFamily(host)
    /\ detected2 # NotCalled => detected2 = detected1
    /\ listing = "gather_dpkg_packages" => detected1 = "debian"
    /\ listing = "gather_rpm_packages" => detected1 = "rpm"
    /\ ListingDecided /\ listing = "none" => detected1 = "Unknown"

\* C7's case: both tools absent, the family comes from the identification
\* file, both calls have answered and the RPM listing has run.
C7_Witness ==
    /\ host.paths = {}
    /\ host.os_release.words = {"CentOS", "arch"}
    /\ detected1 = "rpm"
    /\ detected2 = "rpm"
    /\ listing = "gather_rpm_packages"
    /\ pc = "line325"

SysctlToolFailed ==
    \/ sysctl_run.kind = "hang"
    \/ sysctl_run.kind = "completed" /\ sysctl_run.returncode # 0

\* C8: when the live-tunables tool times out or exits non-zero the run
\* neither hangs nor aborts there, current_sysctl is the empty mapping and
\* sysctl_conf is what the file alone gives.
C8_SysctlToolFailureDegrades ==
    SysctlToolFailed =>
        /\ pc # "hung"
        /\ raised.by # "current_sysctl"
        /\ "current_sysctl" \in DOMAIN master
        /\ master["current_sysctl"] = EmptyDict
        /\ master["sysctl_conf"] = read_sysctl_conf(host.sysctl_conf)

-----------------------------------------------------------------------------
(* read_sysctl_conf: C9 *)

Returned(fn) == call.fn = fn /\ ret.kind = "return"

\* The lines of a text, without their newlines
TextLines(text) == Split(text, NL)

IsBlank(l) == \A i \in 1..Len(l) : l[i] \in Whitespace
BeginsWithComment(l) == Len(l) > 0 /\ l[1] = "#"
FirstNonBlankIsComment(l) ==
    \E i \in 1..Len(l) : l[i] = "#" /\ \A j \in 1..(i - 1) : l[j] \in Whitespace

KeyOf(l) == Strip(SubSeq(l, 1, Find(l, "=") - 1))
ValueOf(l) == Strip(SubSeq(l, Find(l, "=") + 1, Len(l)))

\* The mapping of the assigning lines `idx` of `ls`: last assignment wins
LastWins(ls, idx) ==
    [k \in {KeyOf(ls[i]) : i \in idx} |->
        ValueOf(ls[CHOOSE i \in idx :
                      /\ KeyOf(ls[i]) = k
                      /\ \A j \in idx : KeyOf(ls[j]) = k => j <= i])]

\* Comment lines are those that begin with the marker
MappingAsClaimed(file) ==
    LET ls == TextLines(file.text)
    IN  IF ~file.exists THEN EmptyDict
        ELSE LastWins(ls, {i \in 1..Len(ls) :
                              /\ ~IsBlank(ls[i])
                              /\ ~BeginsWithComment(ls[i])
                              /\ Contains(ls[i], "=")})

\* Comment lines are those whose first non-blank character is the marker
MappingAsAmended(file) ==
    LET ls == TextLines(file.text)
    IN  IF ~file.exists THEN EmptyDict
        ELSE LastWins(ls, {i \in 1..Len(ls) :
                              /\ ~IsBlank(ls[i])
                              /\ ~FirstNonBlankIsComment(ls[i])
                              /\ Contains(ls[i], "=")})

\* C9 as stated: blank lines, lines beginning with #, and lines without =
\* are ignored; every other line is split at its first = and trimmed; the
\* last assignment to a key wins; an absent file gives the empty mapping.
C9_AsStated ==
    Returned("read_sysctl_conf") => ret.value = MappingAsClaimed(call.arg)

\* C9 amended: as stated, with a comment line being one whose first
\* character after leading whitespace is #; the two inputs the
\* specification gives yield {a:1, b:2} and {x:2}.
C9_ReadSysctlConf ==
    Returned("read_sysctl_conf") =>
        /\ ret.value = MappingAsAmended(call.arg)
        /\ call.arg = SysctlExample1 =>
              ret.value = SetItem(SetItem(EmptyDict, <<"a">>, <<"1">>),
                                  <<"b">>, <<"2">>)
        /\ call.arg = SysctlExample2 =>
              ret.value = SetItem(EmptyDict, <<"x">>, <<"2">>)
        /\ ~call.arg.exists => ret.value = EmptyDict

\* C9's case: a key assigned twice, the second assignment read back.
C9_Witness ==
    /\ Returned("read_sysctl_conf")
    /\ call.arg = File(<<"a", "=", NL, "a", "=", "a">>)
    /\ ret.value = SetItem(EmptyDict, <<"a">>, <<"a">>)

-----------------------------------------------------------------------------
(* The package listings: C4, C5, C6 *)

Answered(fn) == call.fn = fn /\ ret.kind # "pending"

\* The lines of a tool's output in which every line ends with a newline
OutputLines(out) ==
    LET ls == Split(out, NL) IN SubSeq(ls, 1, Len(ls) - 1)

NewlineTerminated(out) == out = <<>> \/ out[Len(out)] = NL

IsNonEmpty(l) == l # <<>>

\* A line of exactly n non-empty fields with single spaces between them
HasFields(l, n) ==
    LET fs == Split(l, SP)
    IN  Len(fs) = n /\ \A i \in 1..n : fs[i] # <<>>

\* A line the RPM parse can take: a name, a space, a version-release
RpmParseable(l) == Contains(l, SP)
\* A line the Debian parse can take: at least three fields
DpkgParseable(l) == Len(SplitFields(l)) >= 3

Unparseable(fn, out) ==
    \E i \in 1..Len(OutputLines(out)) :
        LET l == OutputLines(out)[i]
        IN  /\ l # <<>>
            /\ IF fn = "gather_rpm_packages" THEN ~RpmParseable(l)
               ELSE ~DpkgParseable(l)

\* C4: neither listing raises to its caller; a non-zero exit or an
\* unparseable line gives the empty list with the condition recorded.
C4_ListingNeverRaises ==
    (/\ ret.kind # "pending"
     /\ call.fn \in {"gather_rpm_packages", "gather_dpkg_packages"}
     /\ call.arg.kind = "completed") =>
        /\ ret.kind = "return"
        /\ (call.arg.returncode # 0 \/ Unparseable(call.fn, call.arg.stdout)) =>
              ret.value = <<>> /\ ret.printed # <<>>

DpkgRecord(l) ==
    [Package |-> Split(l, SP)[1],
     Version |-> Split(l, SP)[2],
     Architecture |-> Split(l, SP)[3]]

\* C5: for newline-terminated Debian output of well-formed three-field
\* lines (at least one of them) the result is one record per non-empty
\* line, in output order, of that line's three fields; blank lines give no
\* record.
C5_DpkgOneRecordPerLine ==
    (/\ Answered("gather_dpkg_packages")
     /\ call.arg.kind = "completed"
     /\ call.arg.returncode = 0
     /\ NewlineTerminated(call.arg.stdout)
     /\ SelectSeq(OutputLines(call.arg.stdout), IsNonEmpty) # <<>>
     /\ \A i \in 1..Len(OutputLines(call.arg.stdout)) :
           LET l == OutputLines(call.arg.stdout)[i]
           IN  l = <<>> \/ HasFields(l, 3)) =>
        LET ls == SelectSeq(OutputLines(call.arg.stdout), IsNonEmpty)
        IN  /\ ret.kind = "return"
            /\ ret.value = [i \in 1..Len(ls) |-> DpkgRecord(ls[i])]

\* C6: for RPM output that exits zero and consists of well-formed
\* NAME VERSION-RELEASE lines the result is one (name, version) record per
\* non-empty line, in output order.
C6_RpmOneRecordPerLine ==
    (/\ Answered("gather_rpm_packages")
     /\ call.arg.kind = "completed"
     /\ call.arg.returncode = 0
     /\ \A i \in 1..Len(Split(call.arg.stdout, NL)) :
           LET l == Split(call.arg.stdout, NL)[i]
           IN  l = <<>> \/ HasFields(l, 2)) =>
        LET ls == SelectSeq(Split(call.arg.stdout, NL), IsNonEmpty)
        IN  /\ ret.kind = "return"
            /\ ret.value = [i \in 1..Len(ls) |->
                               [name |-> Split(ls[i], SP)[1],
                                version |-> Split(ls[i], SP)[2]]]

-----------------------------------------------------------------------------
(* The enumerations: C3, C10 *)

Collected(proc) == proc.raises = "no"
UsageSucceeded(part) == part.usage.kind = "return"
UsageFailed(part) == part.usage.kind = "raise"

IsUsageRecord(r) == "percent" \in DOMAIN r

\* The usage record of each of `parts`, tagged with its mount point
UsageRecords(parts) ==
    [i \in 1..Len(parts) |-> [percent |-> parts[i].usage.value.percent,
                              mountpoint |-> parts[i].mountpoint]]

PidsOf(records) == [i \in 1..Len(records) |-> records[i].pid]

\* C3: a process that raises access-denied, no-such-process or zombie while
\* its fields are collected is absent from processes, every other process
\* is collected, in enumeration order, and the enumeration does not abort.
C3_FailingProcessesSkipped ==
    (/\ Answered("gather_system_info")
     /\ call.arg.queries = "ok"
     /\ call.arg.partitions.kind = "return"
     /\ \A i \in 1..Len(call.arg.procs) :
           call.arg.procs[i].raises \in {"no"} \cup CaughtProcessErrors) =>
        /\ ret.kind = "return"
        /\ PidsOf(ret.value.processes)
              = PidsOf(SelectSeq(call.arg.procs, Collected))

\* C3's case: the second of three processes is denied, the first and the
\* third are collected.
C3_Witness ==
    /\ Returned("gather_system_info")
    /\ Len(call.arg.procs) = 3
    /\ call.arg.procs[1].raises = "no"
    /\ call.arg.procs[2].raises = "AccessDenied"
    /\ call.arg.procs[3].raises = "no"
    /\ PidsOf(ret.value.processes) = <<1, 3>>

\* C10: every mount whose query succeeded has its usage record, tagged
\* with its mount point, in partition order, and every failing mount is
\* represented by an error record scoped to that mount.
C10_FailingMountsRecorded ==
    (Returned("gather_disk_usage_info") /\ call.arg.kind = "return") =>
        /\ SelectSeq(ret.value, IsUsageRecord)
              = UsageRecords(SelectSeq(call.arg.value, UsageSucceeded))
        /\ \A i \in 1..Len(call.arg.value) :
              UsageFailed(call.arg.value[i]) =>
                  \E j \in 1..Len(ret.value) :
                      /\ ret.value[j].mountpoint = call.arg.value[i].mountpoint
                      /\ ~IsUsageRecord(ret.value[j])

\* What gather_disk_usage_info returns instead: exactly the usage records
\* of the mounts whose query succeeded, in partition order; a failing mount
\* leaves nothing in the result.
DiskUsage_SucceededMountsKept ==
    (Returned("gather_disk_usage_info") /\ call.arg.kind = "return") =>
        ret.value = UsageRecords(SelectSeq(call.arg.value, UsageSucceeded))

=============================================================================
